---- MODULE Spec2Model ----
(***************************************************************************)
(* State-machine model of the folder-to-repository uploader                *)
(* (src/uploader.py): the two upload workers (worker_per_file,             *)
(* worker_single), the remote repository they talk to, and the App         *)
(* handlers that start, pause, cancel and poll a run.                      *)
(*                                                                         *)
(* Granularity: one worker step per evaluation of the cancel/pause flags   *)
(* and per remote call.  A sleep is folded into the step that follows it,  *)
(* so the state "about to call" is also the state "sleeping before the     *)
(* call", in which the App handlers may run.                               *)
(***************************************************************************)
EXTENDS Integers, Sequences, FiniteSets, TLC

\* ------------------------------------------------------------------ bounds
MaxFiles == 2

\* the largest count handed to the completion classification on its own
MaxCount == 6

\* ------------------------------------------------------- program constants
MiB          == 1024 * 1024
SizeCap      == 99 * MiB
MaxAttempts  == 7
ServerCap    == 120
RateCap      == 300
BlobAttempts == 4
DefaultDelay == 1

\* ------------------------------------------------------------------ inputs
\* line 66
FILES_LOG == "files.log"

\* A collected file: its size, whether stat() succeeds when the worker
\* reaches it, whether read_bytes() succeeds, and its path relative to the
\* local folder ("a" stands for every path other than FILES_LOG).
FileKinds ==
  { [size |-> 5,           stat |-> TRUE,  read |-> TRUE,  rel |-> "a"],
    [size |-> SizeCap + 1, stat |-> TRUE,  read |-> TRUE,  rel |-> "a"],
    [size |-> 5,           stat |-> FALSE, read |-> FALSE, rel |-> "a"],
    [size |-> 7,           stat |-> TRUE,  read |-> FALSE, rel |-> "a"] }

FileLists == UNION { [1..n -> FileKinds] : n \in 0..MaxFiles }

\* The boundary of the size test: a readable file of exactly 99 MiB, alone
\* or next to files of the other kinds.
AtCapFile == [size |-> SizeCap, stat |-> TRUE, read |-> TRUE, rel |-> "a"]

CapLists ==
  { fl \in UNION { [1..n -> FileKinds \cup {AtCapFile}] : n \in 1..MaxFiles } :
      Cardinality({ n \in DOMAIN fl : fl[n] = AtCapFile }) = 1 }

\* A readable file named files.log at the top of the local folder, alone or
\* next to files of the other kinds.
LogFile == [size |-> 5, stat |-> TRUE, read |-> TRUE, rel |-> FILES_LOG]

LogFileLists ==
  { fl \in UNION { [1..n -> FileKinds \cup {LogFile}] : n \in 1..MaxFiles } :
      Cardinality({ n \in DOMAIN fl : fl[n] = LogFile }) = 1 }

Modes    == {"per_file", "single"}
\* delete_mode: "permanent" differs from "recycle" only in the helper called
\* (_delete_file for _recycle_file) and is not drawn.
DelModes == {"none", "recycle"}

Configs ==
  [ mode            : Modes,
    dry_run         : BOOLEAN,
    write_files_log : BOOLEAN,
    delete_mode     : DelModes,
    delay           : {DefaultDelay} ]

\* Icons of the session-log rows and of the queue panel.
IconOk   == "ok"      \* committed
IconFail == "fail"    \* failed
IconSkip == "skip"    \* skipped
IconDry  == "dry"     \* dry run
IconWait == "wait"    \* in progress
IconNone == "none"    \* queue_init: nothing reported yet
Terminal == {IconOk, IconFail, IconSkip, IconDry}

LogPath == 0          \* the repo path of files.log; file k has repo path k + 1
NoSha   == 0          \* None: the path does not exist / nothing fetched

\* Git objects are named by small integers; None is NoObj.  The branch
\* starts at BaseCommit, whose tree is BaseTree; the objects a run creates
\* are NewTree and NewCommit.
NoObj      == 0
BaseCommit == 1
BaseTree   == 1
NewTree    == 2
NewCommit  == 2
NoBlob     == -1
LogBlob    == 0
BlobOf(k)  == k + 1   \* the blob holding the content of the file at index k

Min(a, b) == IF a < b THEN a ELSE b

VARIABLES
  \* ---- App
  running, cancel_ev, pause_ev, btn, log_q,
  \* ---- run configuration handed to the worker
  cfg, files,
  \* ---- worker locals
  wpc, i, attempt, backoff, outcome, sha,
  done, failed, skipped, deleted, bytes_up, entries,
  \* ---- worker_single locals
  file_data, tree_items, c_sha, t_sha, att, nt, nc, existing,
  \* ---- remote repository
  rhash, branch, objects, rlog,
  \* ---- observations of the run (events emitted, calls issued)
  qicon, called, anyCall, faulty, refMoves, cancelSeen, cancelPos, last, disposed,
  \* ---- hash fetches and writes issued for the file in hand
  fetches, writes,
  \* ---- what an earlier run of the same App left behind
  first,
  \* ---- a function of the program applied on its own: arguments and result
  eval

appVars  == <<running, cancel_ev, pause_ev, btn, log_q>>
cfgVars  == <<cfg, files, first, eval>>
loopVars == <<i, attempt, backoff, outcome, sha>>
tally    == <<done, failed, skipped, deleted, bytes_up>>
batchVars == <<file_data, tree_items, c_sha, t_sha, att, nt, nc, existing>>
remVars  == <<rhash, branch, objects, rlog>>
countVars == <<fetches, writes>>
callVars == <<called, anyCall, faulty, refMoves, countVars>>
obsVars  == <<qicon, callVars, cancelSeen, cancelPos, last, disposed>>
vars     == <<appVars, cfgVars, wpc, loopVars, tally, entries, batchVars, remVars,
              obsVars>>

total == Len(files)

\* repo_path of the file at (0-based) index k (lines 498-499, 667-668):
\* prefix/rel, which is _log_path(prefix) for the file whose rel is FILES_LOG
RepoPath(k) ==
  IF k + 1 \in DOMAIN files /\ files[k + 1].rel = FILES_LOG THEN LogPath ELSE k + 1

Entry(icon, p) == [icon |-> icon, path |-> p]

DoneEvent(d, f, s, x) == [done |-> d, failed |-> f, skipped |-> s, deleted |-> x]

\* The result of the attempt the worker has just handled and the time it
\* slept on it; NoResult once the worker has moved on.
Result(k, t) == [kind |-> k, sleep |-> t]
NoResult == Result("none", 0)

\* ------------------------------------------------------- remote responses
\* A response to PUT /contents: the status code, what the body text contains
\* and the rate-limit header it carries.
Success == {200, 201}
Texts   == {"", "rate limit", "422", "503"}
Hdrs    == {"none", "X-RateLimit-Remaining: 0", "x-ratelimit-remaining: 0",
            "X-RateLimit-Remaining: 5"}

Responses ==
       { [code |-> c,   text |-> "", hdr |-> "none"] :
             c \in {200, 201, 429, 422, 409, 500, 502, 503, 504, 404} }
  \cup { [code |-> 403, text |-> t,  hdr |-> h] : t \in Texts, h \in Hdrs }
  \cup { [code |-> 404, text |-> t,  hdr |-> "none"] : t \in Texts }

\* _is_rate_limit(code, text, hdrs)
\* hdrs is a plain dict: the membership test lower-cases the header names,
\* the lookup hdrs.get("X-RateLimit-Remaining", "1") does not.
HasRemainingHeader(h) == h # "none"
GetRemaining(h) ==
  IF h = "X-RateLimit-Remaining: 0" THEN "0"
  ELSE IF h = "X-RateLimit-Remaining: 5" THEN "5"
  ELSE "1"

_is_rate_limit(code, text, hdr) ==
  IF code = 429 THEN TRUE
  ELSE IF code = 403
       THEN text = "rate limit" \/ (HasRemainingHeader(hdr) /\ GetRemaining(hdr) = "0")
       ELSE FALSE

\* "s" in err, where err = f"HTTP {code}: {text[:300]}"
ErrHas(r, codes, texts) == r.code \in codes \/ r.text \in texts

\* _put_file's result and the worker's reading of it (lines 558-589)
Classify(r) ==
  IF r.code \in Success THEN "ok"
  ELSE IF _is_rate_limit(r.code, r.text, r.hdr) THEN "rl"
  ELSE IF ErrHas(r, {422}, {"422"}) THEN "conflict"
  ELSE IF ErrHas(r, {500, 502, 503, 504}, {"503"}) THEN "server"
  ELSE "client"

\* What the repository can answer to a write of path p carrying hash s: it
\* accepts only when s is the hash it stores at p; any failure is possible.
PutResponsesIn(R, p, s) == { r \in R : r.code \in Success => s = rhash[p] }
PutResponses(p, s) == PutResponsesIn(Responses, p, s)

\* The responses to a write that are no success and not rate-limited and
\* whose status is neither 422 nor one of the 5xx statuses.
OtherStatus(r) ==
  /\ r.code \notin Success
  /\ ~_is_rate_limit(r.code, r.text, r.hdr)
  /\ r.code \notin {422, 500, 502, 503, 504}

OtherStatusResponses == { r \in Responses : OtherStatus(r) }

\* What the repository can answer to a read of path p: 200 with the stored
\* hash when the path exists, and a non-200 status (404 stands for all of
\* them) at any time.
GetResponses(p) ==
  {[code |-> 404, sha |-> NoSha]}
    \cup (IF rhash[p] # NoSha THEN {[code |-> 200, sha |-> rhash[p]]} ELSE {})

\* The answer r to a read of path p is a fault of the remote: a non-200
\* status for a path that exists.
GetFault(p, r) == rhash[p] # NoSha /\ r.code # 200

\* A variant of _get_file_sha that never finds a hash.
_get_file_sha_Never(r) == NoSha

\* _get_file_sha (lines 264-269): the stored hash on 200, None otherwise
_get_file_sha(r) == IF r.code = 200 THEN r.sha ELSE NoSha

\* The answer r to a write of path p carrying hash s is a fault of the
\* remote: a refusal of a write whose hash matches, or, for a hash that does
\* not match, anything but a conflict status.
PutFault(p, s, r) ==
  IF s = rhash[p] THEN r.code \notin Success ELSE r.code \notin {409, 422}

\* The hash the repository stores once the local content has been written.
ContentHash == 1

\* The record of a first run that has ended: the files it committed.
NoFirst == [over |-> FALSE, ok |-> {}]

\* ----------------------------------------------------------- session log
\* The log document is the sequence of its parts: the document header and
\* one block per session.  None: no document (the object does not exist, or
\* the read gave no content).
None == <<"None">>

\* line 395
_log_header == <<"header">>

\* line 401: the block of this run
_session_block == <<IF first.over THEN "session 2" ELSE "session 1">>

\* lines 425-426 and 754-755
NewLog(ex) == IF ex = None THEN _log_header \o _session_block ELSE ex \o _session_block

\* _get_file_content_and_sha, lines 272-278: content and hash on 200, (None,
\* None) on every other status
ExistingOf(s) == IF s = NoSha THEN None ELSE rlog

\* What a read of the log object can give worker_single: its content on
\* 200, which takes the object to exist, and None on any other status.
LogReads == {None, rlog}

\* ------------------------------------------------------------------- App
Constructed ==
  /\ running = FALSE /\ cancel_ev = FALSE /\ pause_ev = FALSE
  /\ btn = [start |-> TRUE, pause |-> FALSE, cancel |-> FALSE]
  /\ log_q = <<>>
  /\ cfg = [mode |-> "per_file", dry_run |-> FALSE, write_files_log |-> TRUE,
            delete_mode |-> "none", delay |-> DefaultDelay]
  /\ files = <<>>
  /\ wpc = "idle"
  /\ i = 0 /\ attempt = 0 /\ backoff = 0 /\ outcome = "none" /\ sha = NoSha
  /\ done = 0 /\ failed = 0 /\ skipped = 0 /\ deleted = 0 /\ bytes_up = 0
  /\ entries = <<>>
  /\ file_data = <<>> /\ tree_items = <<>> /\ c_sha = NoObj /\ t_sha = NoObj
  /\ att = 0 /\ nt = NoObj /\ nc = NoObj /\ existing = None
  /\ rhash = [p \in 0..(MaxFiles + 1) |-> NoSha]
  /\ branch = BaseCommit /\ rlog = None
  /\ objects = [tree   |-> [base |-> NoObj, items |-> <<>>],
                commit |-> [tree |-> NoObj, parent |-> NoObj]]
  /\ qicon = <<>> /\ called = {} /\ anyCall = FALSE /\ faulty = FALSE /\ refMoves = 0
  /\ cancelSeen = FALSE /\ cancelPos = -1
  /\ last = NoResult /\ disposed = <<>>
  /\ fetches = 0 /\ writes = 0
  /\ first = NoFirst

\* no function is being applied on its own
NoEval == [fn |-> "none"]

Init == Constructed /\ eval = NoEval

\* App._start: the start button is enabled; clears both flags and starts the
\* worker thread of the selected mode.  One run is followed from the
\* construction of the App.
\* lines 1796-1798 and the workers' own initialisation (lines 484-487, 656-659)
NewRun ==
  /\ cancel_ev' = FALSE /\ pause_ev' = FALSE
  /\ running' = TRUE
  /\ btn' = [start |-> FALSE, pause |-> TRUE, cancel |-> TRUE]
  /\ i' = 0 /\ attempt' = 0 /\ backoff' = 0 /\ outcome' = "none" /\ sha' = NoSha
  /\ done' = 0 /\ failed' = 0 /\ skipped' = 0 /\ deleted' = 0 /\ bytes_up' = 0
  /\ entries' = <<>>
  /\ file_data' = <<>> /\ tree_items' = <<>> /\ c_sha' = NoObj /\ t_sha' = NoObj
  /\ att' = 0 /\ nt' = NoObj /\ nc' = NoObj /\ existing' = None
  /\ qicon' = <<>> /\ called' = {} /\ anyCall' = FALSE /\ faulty' = FALSE
  /\ refMoves' = 0 /\ fetches' = 0 /\ writes' = 0
  /\ cancelSeen' = FALSE /\ cancelPos' = -1
  /\ last' = NoResult /\ disposed' = <<>>
  /\ UNCHANGED <<log_q, remVars>>

StartFrom(cfgs, lists) ==
  /\ btn.start
  /\ wpc = "idle"
  /\ \E c \in cfgs, fl \in lists :
       /\ cfg' = c
       /\ files' = fl
       /\ wpc' = IF c.mode = "single" THEN "ws_start" ELSE "pf_start"
  /\ first' = first /\ eval' = eval
  /\ NewRun

\* the files with a committed row (line 564 / line 742)
CommittedSet ==
  { k \in 0..(Len(files) - 1) :
      \E n \in 1..Len(entries) : entries[n] = [icon |-> IconOk, path |-> k + 1] }

\* App._start pressed again, with the same settings and the same local
\* folder, after a first run that ended with no remote fault and no
\* cancellation.
StartAgain ==
  /\ btn.start
  /\ wpc = "end"
  /\ ~first.over
  /\ ~faulty /\ ~cancelSeen
  /\ first' = [over |-> TRUE, ok |-> CommittedSet]
  /\ wpc' = IF cfg.mode = "single" THEN "ws_start" ELSE "pf_start"
  /\ UNCHANGED <<cfg, files, eval>>
  /\ NewRun

StartWith(lists) == StartFrom(Configs, lists)

Start    == StartWith(FileLists)
StartCap == StartWith(CapLists)

\* App._toggle_pause
TogglePause ==
  /\ btn.pause
  /\ pause_ev' = ~pause_ev
  /\ UNCHANGED <<running, cancel_ev, btn, log_q, cfgVars, batchVars, wpc, loopVars,
                 tally, entries, remVars, obsVars>>

\* A variant of the cancel handler that gives the start button back at once.
CancelButtons_StartEnabled(b) == [b EXCEPT !.cancel = FALSE, !.start = TRUE]

\* line 1812: the cancel handler disables its own button and no other
CancelButtons(b) == [b EXCEPT !.cancel = FALSE]

\* App._cancel_upload.  cancelPos records where the worker stood: the index of
\* the next file when it is between two files, -1 otherwise.
CancelUpload ==
  /\ btn.cancel
  /\ cancel_ev' = TRUE /\ pause_ev' = FALSE
  /\ btn' = CancelButtons(btn)
  /\ cancelPos' = IF wpc \in {"pf_pause", "pf_head"} THEN i ELSE -1
  /\ UNCHANGED <<running, log_q, cfgVars, batchVars, wpc, loopVars, tally, entries,
                 remVars, qicon, callVars, cancelSeen, last, disposed>>

\* App._poll: takes the next event off the channel.  Only `done` events are
\* kept in log_q; the other kinds change nothing but the display.
Poll ==
  /\ log_q # <<>>
  /\ log_q' = Tail(log_q)
  /\ running' = FALSE
  /\ btn' = [start |-> TRUE, pause |-> FALSE, cancel |-> FALSE]
  /\ pause_ev' = FALSE
  /\ UNCHANGED <<cancel_ev, cfgVars, batchVars, wpc, loopVars, tally, entries,
                 remVars, obsVars>>

\* ------------------------------------------------------ worker_per_file
\* A variant of the pause wait that does not look at the cancel flag.
PauseWaits_IgnoreCancel == pause_ev

\* `while pause_ev.is_set() and not cancel_ev.is_set()` (lines 491, 540,
\* 655, 718)
PauseWaits == pause_ev /\ ~cancel_ev

\* A remote call is issued: for the file at index k (ItemCall) or for the run
\* as a whole (RunCall); bad tells that the call did not succeed.
ItemCall(k, bad) ==
  /\ called' = called \cup {k}
  /\ anyCall' = TRUE
  /\ faulty' = (faulty \/ bad)

RunCall(bad) ==
  /\ called' = called
  /\ anyCall' = TRUE
  /\ faulty' = (faulty \/ bad)

\* qupdate(idx, icon): the queue_update event for row idx of the queue panel
QUpdate(q, idx, icon) == IF idx + 1 \in DOMAIN q THEN [q EXCEPT ![idx + 1] = icon] ELSE q

\* Variants of the size test: one that lets a file one byte above the cap
\* through, one that skips nothing.
Oversize_OffByOne(size) == size > SizeCap + 1
Oversize_Never(size)    == FALSE

\* the size test of lines 515 and 677
Oversize(size) == size > SizeCap

\* where the for loop over the files goes after the file at index k
AfterItem(k) == IF k + 1 < total THEN "pf_pause" ELSE "pf_log"

\* lines 474-475 and 645-646: the queue_init event lists every collected
\* file with the size f.stat() gives, outside any try: for a file that is
\* gone by then stat() raises OSError and the worker thread ends.  A file
\* whose stat() fails when the worker reaches it may be gone already here.
QueueInit(pc) ==
  \/ /\ qicon' = [k \in 1..total |-> IconNone]
     /\ wpc' = pc
     /\ log_q' = log_q
  \/ /\ \E k \in DOMAIN files : ~files[k].stat
     /\ wpc' = "dead"
     /\ UNCHANGED <<qicon, log_q>>

\* lines 468-487: collect the files; an empty list ends the run at once
PfStart ==
  /\ wpc = "pf_start"
  /\ IF total = 0
       THEN /\ log_q' = Append(log_q, DoneEvent(0, 0, 0, 0))
            /\ wpc' = "abort"
            /\ qicon' = qicon
       ELSE QueueInit("pf_pause")
  /\ UNCHANGED <<running, cancel_ev, pause_ev, btn, cfgVars, batchVars, loopVars, tally,
                 entries, remVars, callVars, cancelSeen, cancelPos,
                 last, disposed>>

\* lines 491-493: the pause wait at a file boundary.  The condition reads the
\* pause flag and, only when it is set, the cancel flag.
PfPause ==
  /\ wpc = "pf_pause"
  /\ IF PauseWaits
       THEN UNCHANGED <<wpc, cancelSeen>>
       ELSE /\ wpc' = "pf_head"
            /\ cancelSeen' = (cancelSeen \/ (pause_ev /\ cancel_ev))
  /\ last' = NoResult /\ fetches' = 0 /\ writes' = 0
  /\ UNCHANGED <<appVars, cfgVars, batchVars, loopVars, tally, entries, remVars, qicon,
                 called, anyCall, faulty, refMoves, cancelPos, disposed>>

\* the local part of one file (lines 506-530): stat, size test, dry run, read
LocalOutcome(f, dry) ==
  IF ~f.stat THEN IconSkip
  ELSE IF Oversize(f.size) THEN IconSkip
  ELSE IF dry THEN IconDry
  ELSE IF ~f.read THEN IconFail
  ELSE IconWait

\* A variant of the boundary check that only looks at the cancel flag while
\* the run is paused.
CancelAtBoundary_Paused == pause_ev /\ cancel_ev

\* line 495: the cancel check at the file boundary
CancelAtBoundary == cancel_ev

\* lines 495-536: the cancel check at the file boundary, then the local part
\* of the file; a file that passes it enters the attempt loop
PfHead ==
  /\ wpc = "pf_head"
  /\ IF CancelAtBoundary
       THEN /\ cancelSeen' = TRUE
            /\ wpc' = "pf_log"
            /\ UNCHANGED <<loopVars, tally, entries, qicon>>
       ELSE LET p == RepoPath(i)
                local == LocalOutcome(files[i + 1], cfg.dry_run)
            IN /\ cancelSeen' = cancelSeen
               /\ qicon' = QUpdate(qicon, i, local)
               /\ IF local = IconWait
                    THEN /\ backoff' = cfg.delay
                         /\ outcome' = "none"
                         /\ attempt' = 1
                         /\ wpc' = "pf_att"
                         /\ UNCHANGED <<i, sha, tally, entries>>
                    ELSE /\ entries' = Append(entries, Entry(local, p))
                         /\ skipped' = IF local = IconSkip THEN skipped + 1 ELSE skipped
                         /\ done'    = IF local = IconDry  THEN done + 1    ELSE done
                         /\ failed'  = IF local = IconFail THEN failed + 1  ELSE failed
                         /\ i' = i + 1
                         /\ wpc' = AfterItem(i)
                         /\ UNCHANGED <<attempt, backoff, outcome, sha, deleted,
                                        bytes_up>>
  /\ fetches' = 0 /\ writes' = 0
  /\ UNCHANGED <<appVars, cfgVars, batchVars, remVars, called, anyCall, faulty, refMoves,
                 cancelPos, last, disposed>>

\* lines 538-539: head of the attempt loop
PfAtt ==
  /\ wpc = "pf_att"
  /\ IF cancel_ev
       THEN cancelSeen' = TRUE /\ wpc' = "pf_post"
       ELSE cancelSeen' = cancelSeen /\ wpc' = "pf_apause"
  /\ last' = NoResult
  /\ UNCHANGED <<appVars, cfgVars, batchVars, loopVars, tally, entries, remVars, qicon, callVars, cancelPos, disposed>>

\* lines 540-541: the pause wait inside the attempt loop
PfAPause ==
  /\ wpc = "pf_apause"
  /\ IF PauseWaits
       THEN UNCHANGED <<wpc, cancelSeen>>
       ELSE /\ wpc' = "pf_sha"
            /\ cancelSeen' = (cancelSeen \/ (pause_ev /\ cancel_ev))
  /\ UNCHANGED <<appVars, cfgVars, batchVars, loopVars, tally, entries, remVars, qicon, callVars, cancelPos, last, disposed>>

\* A variant of the loop that never runs out of attempts.
ContinuePc_NoLimit == "pf_att"

\* `continue` in the attempt loop: the next attempt, or the end of range(1, 8)
ContinuePc  == IF attempt = MaxAttempts THEN "pf_post" ELSE "pf_att"
ContinueAtt == IF attempt = MaxAttempts THEN attempt ELSE attempt + 1

\* A variant of the server-class backoff without the cap.
ServerBackoff_NoCap(b) == b * 2

\* the backoff after a server-class error (lines 548, 556, 585) and after a
\* rate limit (lines 575-577)
ServerBackoff(b) == Min(b * 2, ServerCap)
RateWait(b)      == b * 2
RateBackoff(b)   == Min(RateWait(b) * 2, RateCap)

\* except RequestException (lines 546-548 and 554-556)
TransportError ==
  /\ last' = Result("exc", backoff)
  /\ backoff' = ServerBackoff(backoff)
  /\ wpc' = ContinuePc /\ attempt' = ContinueAtt

\* A variant in which a fetch that raised is followed by the write.
FetchError_GoOn ==
  /\ last' = Result("exc", backoff)
  /\ backoff' = ServerBackoff(backoff)
  /\ wpc' = "pf_put" /\ attempt' = attempt

\* lines 546-548: the fetch raised; sleep(backoff), double it, `continue`
FetchError == TransportError

\* the fetch of this attempt returned the hash v (line 545)
Fetched(v) == [kind |-> "fetched", sleep |-> cfg.delay, sha |-> v]

\* line 268: the path is a directory of the repository, the answer is 200
\* with a JSON array, and `r.json().get` raises AttributeError, which
\* `except RequestException` (line 546) does not catch
ListingAnswer ==
  /\ wpc' = "dead"
  /\ UNCHANGED <<sha, last, attempt, backoff>>

\* lines 543-548: sleep(delay), then fetch the hash stored at the path.
\* _get_file_sha gives the stored hash on 200, None on any other status, and
\* raises on a transport error.
PfShaWith(n) ==
  /\ wpc = "pf_sha"
  /\ \/ \E r \in GetResponses(RepoPath(i)) :
          /\ ItemCall(i, GetFault(RepoPath(i), r))
          /\ sha' = _get_file_sha(r)
          /\ last' = Fetched(_get_file_sha(r))
          /\ wpc' = "pf_put"
          /\ UNCHANGED <<attempt, backoff>>
     \/ ItemCall(i, TRUE) /\ FetchError /\ sha' = sha
     \/ ItemCall(i, TRUE) /\ ListingAnswer
  /\ refMoves' = refMoves /\ fetches' = fetches + n /\ writes' = writes
  /\ UNCHANGED <<appVars, cfgVars, batchVars, i, outcome, tally, entries, remVars, qicon,
                 cancelSeen, cancelPos, disposed>>

\* post-success disposal (lines 568-571): _recycle_file / _delete_file may fail
DisposeResults == IF cfg.delete_mode = "none" THEN {FALSE} ELSE {TRUE, FALSE}

\* A variant that records the disposal in front of the earlier ones.
Disposals_Front(seq, k) == IF cfg.delete_mode = "none" THEN seq ELSE <<k>> \o seq

Disposals(seq, k) == IF cfg.delete_mode = "none" THEN seq ELSE Append(seq, k)

\* lines 558-572: the write succeeded
PutOk ==
  /\ rhash' = [rhash EXCEPT ![RepoPath(i)] = ContentHash]
  /\ bytes_up' = bytes_up + files[i + 1].size
  /\ entries' = Append(entries, Entry(IconOk, RepoPath(i)))
  /\ done' = done + 1
  /\ outcome' = "ok"
  /\ qicon' = QUpdate(qicon, i, IconOk)
  /\ disposed' = Disposals(disposed, i)
  /\ \E d \in DisposeResults : deleted' = IF d THEN deleted + 1 ELSE deleted
  /\ last' = Result("ok", 0)
  /\ i' = i + 1 /\ wpc' = AfterItem(i)
  /\ UNCHANGED <<attempt, backoff, failed, skipped>>

\* lines 574-577: rate limited
PutRateLimited ==
  /\ last' = Result("rl", RateWait(backoff))
  /\ backoff' = RateBackoff(backoff)
  /\ wpc' = ContinuePc /\ attempt' = ContinueAtt
  /\ UNCHANGED <<i, outcome, tally, entries, rhash, qicon, disposed>>

\* A variant that handles a stale hash as it handles a server error.
PutConflict_Backoff ==
  /\ last' = Result("conflict", backoff)
  /\ backoff' = ServerBackoff(backoff)
  /\ wpc' = ContinuePc /\ attempt' = ContinueAtt
  /\ UNCHANGED <<i, outcome, tally, entries, rhash, qicon, disposed>>

\* lines 579-581: stale hash
PutConflict ==
  /\ last' = Result("conflict", cfg.delay)
  /\ wpc' = ContinuePc /\ attempt' = ContinueAtt
  /\ UNCHANGED <<i, backoff, outcome, tally, entries, rhash, qicon, disposed>>

\* lines 583-585: server error
PutServerError ==
  /\ last' = Result("server", backoff)
  /\ backoff' = ServerBackoff(backoff)
  /\ wpc' = ContinuePc /\ attempt' = ContinueAtt
  /\ UNCHANGED <<i, outcome, tally, entries, rhash, qicon, disposed>>

\* lines 587-589: any other failure is terminal
PutFailed ==
  /\ entries' = Append(entries, Entry(IconFail, RepoPath(i)))
  /\ failed' = failed + 1
  /\ outcome' = "failed"
  /\ qicon' = QUpdate(qicon, i, IconFail)
  /\ last' = Result("client", 0)
  /\ i' = i + 1 /\ wpc' = AfterItem(i)
  /\ UNCHANGED <<attempt, backoff, done, skipped, deleted, bytes_up, rhash, disposed>>

\* lines 550-589: sleep(delay), the write, and the handling of its result
PfPutFrom(n, R) ==
  /\ wpc = "pf_put"
  /\ refMoves' = refMoves /\ fetches' = fetches /\ writes' = writes + n
  /\ \/ \E r \in PutResponsesIn(R, RepoPath(i), sha) :
          LET kind == Classify(r) IN
          /\ ItemCall(i, PutFault(RepoPath(i), sha, r))
          /\
            \/ kind = "ok"       /\ PutOk
            \/ kind = "rl"       /\ PutRateLimited
            \/ kind = "conflict" /\ PutConflict
            \/ kind = "server"   /\ PutServerError
            \/ kind = "client"   /\ PutFailed
     \/ /\ ItemCall(i, TRUE)
        /\ TransportError
        /\ UNCHANGED <<i, outcome, tally, entries, rhash, qicon, disposed>>
  /\ UNCHANGED <<appVars, cfgVars, batchVars, sha, branch, objects, cancelSeen,
                 cancelPos>>
  /\ rlog' = rlog

\* The steps as the worker takes them, and the same steps with the calls
\* issued for the file in hand counted in fetches and writes.
PfPutWith(n) == PfPutFrom(n, Responses)

PfSha == PfShaWith(0)
PfPut == PfPutWith(0)
PfShaCounted == PfShaWith(1)
PfPutCounted == PfPutWith(1)

\* lines 591-598: the attempt loop was left without an outcome
PfPost ==
  /\ wpc = "pf_post"
  /\ IF ~cancel_ev
       THEN /\ entries' = Append(entries, Entry(IconFail, RepoPath(i)))
            /\ failed' = failed + 1
            /\ qicon' = QUpdate(qicon, i, IconFail)
            /\ cancelSeen' = cancelSeen
       ELSE /\ cancelSeen' = TRUE
            /\ UNCHANGED <<entries, failed, qicon>>
  /\ last' = NoResult
  /\ i' = i + 1 /\ wpc' = AfterItem(i)
  /\ UNCHANGED <<appVars, cfgVars, batchVars, attempt, backoff, outcome, sha, done, skipped,
                 deleted, bytes_up, remVars, callVars, cancelPos, disposed>>

\* A variant of the log condition that forgets the dry-run flag.
WritesLog_AlsoDry == cfg.write_files_log /\ entries # <<>>

\* line 602: `if write_log and not dry and entries`
WritesLog == cfg.write_files_log /\ ~cfg.dry_run /\ entries # <<>>

\* lines 600-602: after the loop, is the session log written?
PfLog ==
  /\ wpc = "pf_log"
  /\ wpc' = IF WritesLog THEN "pl_get" ELSE "pf_done"
  /\ last' = NoResult /\ fetches' = 0 /\ writes' = 0
  /\ UNCHANGED <<appVars, cfgVars, batchVars, loopVars, tally, entries, remVars, qicon,
                 called, anyCall, faulty, refMoves, cancelSeen, cancelPos, disposed>>

\* _push_log, lines 423-428: read the log object; a transport error ends
\* _push_log (caught at line 434)
PlGet ==
  /\ wpc = "pl_get"
  /\ \/ \E got \in {rhash[LogPath], NoSha} :
          RunCall(got # rhash[LogPath]) /\ sha' = got /\ wpc' = "pl_put"
     \/ RunCall(TRUE) /\ sha' = sha /\ wpc' = "pf_done"
  /\ UNCHANGED <<refMoves, countVars>>
  /\ UNCHANGED <<appVars, cfgVars, batchVars, i, attempt, backoff, outcome, tally, entries,
                 remVars, qicon, cancelSeen, cancelPos, last, disposed>>

\* _push_log, lines 428-435: sleep(delay), one write of the log object
PlPut ==
  /\ wpc = "pl_put"
  /\ \/ \E r \in PutResponses(LogPath, sha) :
          /\ RunCall(PutFault(LogPath, sha, r))
          /\ rhash' = IF r.code \in Success
                        THEN [rhash EXCEPT ![LogPath] = ContentHash] ELSE rhash
          /\ rlog' = IF r.code \in Success THEN NewLog(ExistingOf(sha)) ELSE rlog
     \/ RunCall(TRUE) /\ rhash' = rhash /\ rlog' = rlog
  /\ UNCHANGED <<refMoves, countVars>>
  /\ wpc' = "pf_done"
  /\ UNCHANGED <<appVars, cfgVars, batchVars, loopVars, tally, entries, branch,
                 objects, qicon, cancelSeen, cancelPos, last, disposed>>

\* A variant of _done that puts the `done` event twice.
_done_Twice(d, f, s, x) ==
  log_q' = log_q \o <<DoneEvent(d, f, s, x), DoneEvent(d, f, s, x)>>

\* _done(log_q, ...): the closing lines and the `done` event (line 839)
_done(d, f, s, x) == log_q' = Append(log_q, DoneEvent(d, f, s, x))

\* lines 609-610
PfDone ==
  /\ wpc = "pf_done"
  /\ _done(done, failed, skipped, deleted)
  /\ wpc' = "end"
  /\ UNCHANGED <<running, cancel_ev, pause_ev, btn, cfgVars, batchVars, loopVars, tally,
                 entries, remVars, obsVars>>

WorkerPerFile ==
  \/ PfStart \/ PfPause \/ PfHead \/ PfAtt \/ PfAPause \/ PfSha \/ PfPut
  \/ PfPost \/ PfLog \/ PlGet \/ PlPut \/ PfDone

\* -------------------------------------------------------- worker_single
\* log_q.put(("done",0,0,0,0)); return
Abort ==
  /\ log_q' = Append(log_q, DoneEvent(0, 0, 0, 0))
  /\ wpc' = "abort"

\* an exception nothing catches ends the worker thread
Uncaught == wpc' = "dead" /\ log_q' = log_q

\* lines 640-659
WsStart ==
  /\ wpc = "ws_start"
  /\ IF total = 0
       THEN Abort /\ qicon' = qicon
       ELSE QueueInit("ws_rpause")
  /\ UNCHANGED <<running, cancel_ev, pause_ev, btn, cfgVars, batchVars, loopVars,
                 tally, entries, remVars, callVars, cancelSeen, cancelPos,
                 last, disposed>>

\* lines 662-663: the pause wait of the read phase
WsRPause ==
  /\ wpc = "ws_rpause"
  /\ IF PauseWaits
       THEN UNCHANGED <<wpc, cancelSeen>>
       ELSE /\ wpc' = "ws_rhead"
            /\ cancelSeen' = (cancelSeen \/ (pause_ev /\ cancel_ev))
  /\ UNCHANGED <<appVars, cfgVars, batchVars, loopVars, tally, entries, remVars,
                 qicon, callVars, cancelPos, last, disposed>>

\* A variant of the read loop that ends after its first file.
AfterRead_Early(k) == "ws_after"

\* line 661: where the read loop goes after the file at index k
AfterRead(k) == IF k + 1 < total THEN "ws_rpause" ELSE "ws_after"

\* lines 664-691: the cancel check, then stat, size test and read of one file
WsRHead ==
  /\ wpc = "ws_rhead"
  /\ IF cancel_ev
       THEN /\ cancelSeen' = TRUE
            /\ Abort
            /\ UNCHANGED <<i, tally, entries, file_data, qicon>>
       ELSE LET local == LocalOutcome(files[i + 1], FALSE)
            IN /\ cancelSeen' = cancelSeen
               /\ log_q' = log_q
               /\ qicon' = QUpdate(qicon, i, local)
               /\ IF local = IconWait
                    THEN /\ file_data' = Append(file_data, i)
                         /\ UNCHANGED <<tally, entries>>
                    ELSE /\ entries' = Append(entries, Entry(local, RepoPath(i)))
                         /\ skipped' = IF local = IconSkip THEN skipped + 1 ELSE skipped
                         /\ failed'  = IF local = IconFail THEN failed + 1  ELSE failed
                         /\ UNCHANGED <<file_data, done, deleted, bytes_up>>
               /\ i' = i + 1
               /\ wpc' = AfterRead(i)
  /\ UNCHANGED <<running, cancel_ev, pause_ev, btn, cfgVars, attempt, backoff, outcome,
                 sha, tree_items, c_sha, t_sha, att, nt, nc, remVars, callVars,
                 cancelPos, last, disposed>>
  /\ existing' = existing

\* the rows a dry run adds for the files it read (lines 694-696)
DryEntries(fd) == [n \in 1..Len(fd) |-> Entry(IconDry, RepoPath(fd[n]))]

\* lines 693-702: end of the read phase
WsAfter ==
  /\ wpc = "ws_after"
  /\ IF cfg.dry_run
       THEN /\ entries' = entries \o DryEntries(file_data)
            /\ _done(Len(file_data), failed, skipped, 0)
            /\ wpc' = "end"
       ELSE IF file_data = <<>>
       THEN Abort /\ entries' = entries
       ELSE wpc' = "ws_branch" /\ UNCHANGED <<log_q, entries>>
  /\ UNCHANGED <<running, cancel_ev, pause_ev, btn, cfgVars, batchVars, loopVars,
                 tally, remVars, obsVars>>

\* lines 705-708: _branch_sha gives the head commit on 200, None otherwise
WsBranch ==
  /\ wpc = "ws_branch"
  /\ \/ RunCall(FALSE) /\ c_sha' = branch /\ wpc' = "ws_tsha" /\ log_q' = log_q
     \/ RunCall(TRUE) /\ c_sha' = NoObj /\ Abort
     \/ RunCall(TRUE) /\ c_sha' = c_sha /\ Uncaught
  /\ UNCHANGED <<refMoves, countVars>>
  /\ UNCHANGED <<running, cancel_ev, pause_ev, btn, cfgVars, loopVars, tally, entries,
                 file_data, tree_items, t_sha, att, nt, nc, remVars, qicon,
                 cancelSeen, cancelPos, last, disposed>>
  /\ existing' = existing

\* The tree of a commit: the base commit has the base tree, the commit a run
\* created has the tree recorded in the object store.
TreeOf(c) == IF c = BaseCommit THEN BaseTree ELSE objects.commit.tree

\* lines 709-716: _tree_sha, then the blob loop starts
WsTreeSha ==
  /\ wpc = "ws_tsha"
  /\ \/ /\ RunCall(FALSE)
        /\ t_sha' = TreeOf(c_sha)
        /\ tree_items' = <<>> /\ i' = 0
        /\ wpc' = "ws_bpause" /\ log_q' = log_q
     \/ RunCall(TRUE) /\ t_sha' = NoObj /\ Abort /\ UNCHANGED <<tree_items, i>>
     \/ RunCall(TRUE) /\ t_sha' = t_sha /\ Uncaught /\ UNCHANGED <<tree_items, i>>
  /\ UNCHANGED <<refMoves, countVars>>
  /\ UNCHANGED <<running, cancel_ev, pause_ev, btn, cfgVars, attempt, backoff, outcome,
                 sha, tally, entries, file_data, c_sha, att, nt, nc, remVars, qicon,
                 cancelSeen, cancelPos, last, disposed>>
  /\ existing' = existing

\* lines 718-719: the pause wait of the blob loop
WsBPause ==
  /\ wpc = "ws_bpause"
  /\ IF PauseWaits
       THEN UNCHANGED <<wpc, cancelSeen>>
       ELSE /\ wpc' = "ws_bhead"
            /\ cancelSeen' = (cancelSeen \/ (pause_ev /\ cancel_ev))
  /\ UNCHANGED <<appVars, cfgVars, batchVars, loopVars, tally, entries, remVars,
                 qicon, callVars, cancelPos, last, disposed>>

\* lines 720-726: the cancel check between two blobs
WsBHead ==
  /\ wpc = "ws_bhead"
  /\ IF cancel_ev
       THEN cancelSeen' = TRUE /\ Abort /\ att' = att
       ELSE cancelSeen' = cancelSeen /\ att' = 1 /\ wpc' = "ws_blob" /\ log_q' = log_q
  /\ UNCHANGED <<running, cancel_ev, pause_ev, btn, cfgVars, loopVars, tally, entries,
                 file_data, tree_items, c_sha, t_sha, nt, nc, remVars, qicon, callVars, cancelPos, last, disposed>>
  /\ existing' = existing

\* where the blob loop goes after the entry at index k of file_data
AfterBlob(k) == IF k + 1 < Len(file_data) THEN "ws_bpause" ELSE "ws_log"

\* A variant of the blob test that takes every result for a blob.
BlobMissing_Never(b) == FALSE

\* line 733: `if not blob`
BlobMissing(b) == b = NoBlob

TreeItem(p, b) == [path |-> p, sha |-> b]

\* lines 733-744: the end of one pass of the blob loop, with the blob made
\* (or NoBlob) for the file at index k of the file list
BlobDone(b, k) ==
  /\ IF BlobMissing(b)
       THEN /\ entries' = Append(entries, Entry(IconFail, RepoPath(k)))
            /\ failed' = failed + 1
            /\ qicon' = QUpdate(qicon, i, IconFail)
            /\ UNCHANGED <<tree_items, bytes_up, done>>
       ELSE /\ tree_items' = Append(tree_items, TreeItem(RepoPath(k), b))
            /\ bytes_up' = bytes_up + files[k + 1].size
            /\ done' = done + 1
            /\ entries' = Append(entries, Entry(IconOk, RepoPath(k)))
            /\ qicon' = QUpdate(qicon, i, IconOk)
            /\ failed' = failed
  /\ i' = i + 1
  /\ wpc' = AfterBlob(i)
  /\ att' = att

\* A variant of the blob loop that makes one attempt more.
BlobRetries_OneMore(a) == a < BlobAttempts + 1

\* line 726: `for att in range(1,5)`: is there an attempt after attempt a?
BlobRetries(a) == a < BlobAttempts

\* lines 726-731: one createBlob call of the (at most four) for a file; a
\* failure status retries at once, a transport error after sleep(2**att)
WsBlob ==
  /\ wpc = "ws_blob"
  /\ LET k == file_data[i + 1] IN
       /\ \/ ItemCall(k, FALSE) /\ BlobDone(BlobOf(k), k)
          \/ /\ ItemCall(k, TRUE)
             /\ IF BlobRetries(att)
                  THEN /\ att' = att + 1
                       /\ UNCHANGED <<wpc, i, entries, failed, qicon, tree_items,
                                      bytes_up, done>>
                  ELSE BlobDone(NoBlob, k)
  /\ UNCHANGED <<refMoves, countVars>>
  /\ UNCHANGED <<appVars, cfgVars, attempt, backoff, outcome, sha, skipped, deleted,
                 file_data, c_sha, t_sha, nt, nc, remVars, cancelSeen, cancelPos,
                 last, disposed>>
  /\ existing' = existing

\* lines 746-750: is the session log added to the commit?
WsLog ==
  /\ wpc = "ws_log"
  /\ wpc' = IF cfg.write_files_log THEN "ws_lget" ELSE "ws_check"
  /\ UNCHANGED <<appVars, cfgVars, batchVars, loopVars, tally, entries, remVars,
                 obsVars>>

\* lines 752-756: read the log object (200: its content; otherwise None)
WsLGet ==
  /\ wpc = "ws_lget"
  /\ \/ \E got \in LogReads, bad \in BOOLEAN :
          /\ (rlog # None => bad = (got = None))
          /\ RunCall(bad) /\ existing' = got /\ wpc' = "ws_lblob"
     \/ RunCall(TRUE) /\ existing' = existing /\ wpc' = "dead"
  /\ UNCHANGED <<refMoves, countVars>>
  /\ UNCHANGED <<appVars, cfgVars, file_data, tree_items, c_sha, t_sha, att, nt, nc,
                 loopVars, tally, entries, remVars, qicon, cancelSeen, cancelPos,
                 last, disposed>>

\* A variant that adds the log entry and removes none.
UpsertLog_Append(items) == Append(items, TreeItem(LogPath, LogBlob))

\* lines 759-760: the log entry replaces any entry of the same path
UpsertLog(items) ==
  SelectSeq(items, LAMBDA t : t.path # LogPath) \o <<TreeItem(LogPath, LogBlob)>>

\* lines 757-761: the blob of the new log
WsLBlob ==
  /\ wpc = "ws_lblob"
  /\ \/ RunCall(FALSE) /\ tree_items' = UpsertLog(tree_items) /\ wpc' = "ws_check"
     \/ RunCall(TRUE) /\ tree_items' = tree_items /\ wpc' = "ws_check"
     \/ RunCall(TRUE) /\ tree_items' = tree_items /\ wpc' = "dead"
  /\ UNCHANGED <<refMoves, countVars>>
  /\ UNCHANGED <<appVars, cfgVars, loopVars, tally, entries, file_data, c_sha, t_sha,
                 att, nt, nc, remVars, qicon, cancelSeen, cancelPos, last,
                 disposed>>
  /\ existing' = existing

\* lines 763-764
WsCheck ==
  /\ wpc = "ws_check"
  /\ IF tree_items = <<>>
       THEN Abort
       ELSE wpc' = "ws_mktree" /\ log_q' = log_q
  /\ UNCHANGED <<running, cancel_ev, pause_ev, btn, cfgVars, batchVars, loopVars,
                 tally, entries, remVars, obsVars>>

\* lines 766-770: _create_tree(base_sha = t_sha, items = tree_items)
WsMkTree ==
  /\ wpc = "ws_mktree"
  /\ \/ /\ RunCall(FALSE)
        /\ nt' = NewTree
        /\ objects' = [objects EXCEPT !.tree = [base |-> t_sha, items |-> tree_items]]
        /\ wpc' = "ws_commit" /\ log_q' = log_q
     \/ RunCall(TRUE) /\ nt' = NoObj /\ Abort /\ objects' = objects
     \/ RunCall(TRUE) /\ nt' = nt /\ Uncaught /\ objects' = objects
  /\ UNCHANGED <<refMoves, countVars>>
  /\ UNCHANGED <<running, cancel_ev, pause_ev, btn, cfgVars, loopVars, tally, entries,
                 file_data, tree_items, c_sha, t_sha, att, nc, rhash, branch, qicon,
                 cancelSeen, cancelPos, last, disposed>>
  /\ existing' = existing
  /\ rlog' = rlog

\* A variant that creates the commit without a parent.
CommitRequest_NoParent == [tree |-> nt, parent |-> NoObj]

\* line 774: the tree and the parents handed to _create_commit
CommitRequest == [tree |-> nt, parent |-> c_sha]

\* lines 772-777: _create_commit(cmsg, tree = nt, parent = c_sha)
WsCommit ==
  /\ wpc = "ws_commit"
  /\ \/ /\ RunCall(FALSE)
        /\ nc' = NewCommit
        /\ objects' = [objects EXCEPT !.commit = CommitRequest]
        /\ wpc' = "ws_ref" /\ log_q' = log_q
     \/ RunCall(TRUE) /\ nc' = NoObj /\ Abort /\ objects' = objects
     \/ RunCall(TRUE) /\ nc' = nc /\ Uncaught /\ objects' = objects
  /\ UNCHANGED <<refMoves, countVars>>
  /\ UNCHANGED <<running, cancel_ev, pause_ev, btn, cfgVars, loopVars, tally, entries,
                 file_data, tree_items, c_sha, t_sha, att, nt, rhash, branch, qicon,
                 cancelSeen, cancelPos, last, disposed>>
  /\ existing' = existing
  /\ rlog' = rlog

\* A variant of the test of line 780 that goes on whatever _update_ref says.
RefFailed_Never(ok) == FALSE

\* line 780: `if not _update_ref(...)`
RefFailed(ok) == ~ok

\* the tree of the new commit holds the blob of the new log (line 761)
CommitsLog ==
  \E n \in DOMAIN objects.tree.items : objects.tree.items[n].path = LogPath

\* lines 779-782: _update_ref(branch, nc); the repository may refuse
WsRef ==
  /\ wpc = "ws_ref"
  /\ \/ \E ok \in BOOLEAN :
          /\ RunCall(~ok)
          /\ branch' = IF ok THEN nc ELSE branch
          /\ refMoves' = IF ok THEN refMoves + 1 ELSE refMoves
          /\ rlog' = IF ok /\ CommitsLog THEN NewLog(existing) ELSE rlog
          /\ IF RefFailed(ok)
               THEN Abort
               ELSE wpc' = "ws_finish" /\ log_q' = log_q
     \/ /\ RunCall(TRUE) /\ branch' = branch /\ refMoves' = refMoves /\ Uncaught
        /\ rlog' = rlog
  /\ UNCHANGED countVars
  /\ UNCHANGED <<running, cancel_ev, pause_ev, btn, cfgVars, batchVars, loopVars,
                 tally, entries, rhash, objects, qicon, cancelSeen, cancelPos,
                 last, disposed>>

\* A variant of the disposal filter that takes every file that was read.
Uploaded_All(fd) == fd

\* line 789: the files of file_data that have a committed row
Uploaded(fd) ==
  SelectSeq(fd, LAMBDA k : \E n \in 1..Len(entries) :
                             entries[n].path = RepoPath(k) /\ entries[n].icon = IconOk)

\* lines 785-796: disposal of the uploaded files, then _done
WsFinish ==
  /\ wpc = "ws_finish"
  /\ IF cfg.delete_mode # "none"
       THEN /\ disposed' = Uploaded(file_data)
            /\ \E n \in 0..Len(Uploaded(file_data)) : deleted' = n
            /\ _done(done, failed, skipped, deleted')
       ELSE /\ UNCHANGED <<disposed, deleted>>
            /\ _done(done, failed, skipped, deleted)
  /\ wpc' = "end"
  /\ UNCHANGED <<running, cancel_ev, pause_ev, btn, cfgVars, batchVars, loopVars,
                 done, failed, skipped, bytes_up, entries, remVars, qicon, callVars, cancelSeen, cancelPos, last>>

WorkerSingle ==
  \/ WsStart \/ WsRPause \/ WsRHead \/ WsAfter \/ WsBranch \/ WsTreeSha
  \/ WsBPause \/ WsBHead \/ WsBlob \/ WsLog \/ WsLGet \/ WsLBlob \/ WsCheck
  \/ WsMkTree \/ WsCommit \/ WsRef \/ WsFinish

Next == Start \/ TogglePause \/ CancelUpload \/ Poll \/ WorkerPerFile \/ WorkerSingle

Spec == Init /\ [][Next]_vars

\* The worker thread is scheduled as long as it has a step to take.
SpecLive == Spec /\ WF_vars(WorkerPerFile \/ WorkerSingle)

\* The same program on file lists that hold a file of exactly the size cap.
NextCap ==
  StartCap \/ TogglePause \/ CancelUpload \/ Poll \/ WorkerPerFile \/ WorkerSingle

SpecCap == Init /\ [][NextCap]_vars

\* Incremental runs with the hash fetches and writes of each file counted.
StartIncremental == StartFrom({ c \in Configs : c.mode = "per_file" }, FileLists)

WorkerPerFileCounted ==
  \/ PfStart \/ PfPause \/ PfHead \/ PfAtt \/ PfAPause \/ PfShaCounted \/ PfPutCounted
  \/ PfPost \/ PfLog \/ PlGet \/ PlPut \/ PfDone

NextAttempts ==
  StartIncremental \/ TogglePause \/ CancelUpload \/ Poll \/ WorkerPerFileCounted

SpecAttempts == Init /\ [][NextAttempts]_vars

\* Incremental runs in which every answer to the write of a file is one of
\* OtherStatusResponses.
PfPutOther == PfPutFrom(0, OtherStatusResponses)

WorkerPerFileOther ==
  \/ PfStart \/ PfPause \/ PfHead \/ PfAtt \/ PfAPause \/ PfSha \/ PfPutOther
  \/ PfPost \/ PfLog \/ PlGet \/ PlPut \/ PfDone

NextOther ==
  StartIncremental \/ TogglePause \/ CancelUpload \/ Poll \/ WorkerPerFileOther

SpecOther == Init /\ [][NextOther]_vars

\* Atomic runs on a local folder that holds a file named files.log.
StartLogFile == StartFrom({ c \in Configs : c.mode = "single" }, LogFileLists)

NextLogFile == StartLogFile \/ TogglePause \/ CancelUpload \/ Poll \/ WorkerSingle

SpecLogFile == Init /\ [][NextLogFile]_vars

\* ------------------------------------------------------- file collection
\* A string is the sequence of its characters.  Alphabet lists the
\* characters that occur, in code point order.
Alphabet ==
  <<"*", ".", "/", "?", "M", "P", "T", "a", "b", "d", "h", "m", "p", "r", "s", "t", "u">>

Ord(c) == CHOOSE n \in 1..Len(Alphabet) : Alphabet[n] = c

\* str.lower()
LowerChar(c) == CASE c = "M" -> "m" [] c = "P" -> "p" [] c = "T" -> "t" [] OTHER -> c
Lower(str) == [n \in 1..Len(str) |-> LowerChar(str[n])]

\* str < str
RECURSIVE StrLess(_, _)
StrLess(x, y) ==
  IF y = <<>> THEN FALSE
  ELSE IF x = <<>> THEN TRUE
  ELSE IF Head(x) # Head(y) THEN Ord(Head(x)) < Ord(Head(y))
  ELSE StrLess(Tail(x), Tail(y))

\* fnmatch.fnmatch(str, pat) on a POSIX system, for patterns made of
\* literal characters, * and ?: the whole of str has to match
RECURSIVE fnmatch(_, _)
fnmatch(str, pat) ==
  IF pat = <<>> THEN str = <<>>
  ELSE IF Head(pat) = "*"
    THEN fnmatch(str, Tail(pat)) \/ (str # <<>> /\ fnmatch(Tail(str), pat))
  ELSE /\ str # <<>>
       /\ (Head(pat) = "?" \/ Head(pat) = Head(str))
       /\ fnmatch(Tail(str), Tail(pat))

SKIP_NAMES ==
  { <<".", "D", "S", "_", "S", "t", "o", "r", "e">>,
    <<"T", "h", "u", "m", "b", "s", ".", "d", "b">>,
    <<"d", "e", "s", "k", "t", "o", "p", ".", "i", "n", "i">>,
    <<".", "g", "i", "t", "k", "e", "e", "p">> }

SKIP_EXTENSIONS ==
  { <<".", "p", "y", "c">>, <<".", "p", "y", "o">>, <<".", "s", "w", "p">>,
    <<".", "s", "w", "o">>, <<".", "t", "m", "p">> }

\* A path is the sequence of its parts.  The root the App passes is the
\* absolute folder chosen in the dialog.
Root == <<"/", "r">>

\* the parts joined with "/"
RECURSIVE Joined(_)
Joined(parts) ==
  IF Len(parts) = 1 THEN parts[1] ELSE parts[1] \o <<"/">> \o Joined(Tail(parts))

\* str(p) for the file with the parts rel under the root
PathStr(rel) == Root \o <<"/">> \o Joined(rel)

\* the same file's path relative to the root
RelStr(rel) == Joined(rel)

\* p.name
PathName(rel) == rel[Len(rel)]

\* p.suffix: from the last dot of the name, when that dot is neither the
\* first nor the last character
LastDot(name) ==
  LET dots == { n \in 1..Len(name) : name[n] = "." }
  IN  IF dots = {} THEN 0 ELSE CHOOSE n \in dots : \A m \in dots : m <= n

PathSuffix(rel) ==
  LET name == PathName(rel)
      d    == LastDot(name)
  IN  IF 1 < d /\ d < Len(name) THEN SubSeq(name, d, Len(name)) ELSE <<>>

\* p < q for two paths under the root: part by part
RECURSIVE PathLess(_, _)
PathLess(x, y) ==
  IF y = <<>> THEN FALSE
  ELSE IF x = <<>> THEN TRUE
  ELSE IF Head(x) # Head(y) THEN StrLess(Head(x), Head(y))
  ELSE PathLess(Tail(x), Tail(y))

\* line 359: fnmatch.fnmatch(str(p), pat)
FullPathMatch(rel, pat) == fnmatch(PathStr(rel), pat)

\* lines 356-360
_skip(rel, patterns) ==
  \/ PathName(rel) \in SKIP_NAMES
  \/ Lower(PathSuffix(rel)) \in SKIP_EXTENSIONS
  \/ \E pat \in patterns : fnmatch(PathName(rel), pat) \/ FullPathMatch(rel, pat)

\* sorted(...) of a set of paths
RECURSIVE SortedPaths(_)
SortedPaths(S) ==
  IF S = {} THEN <<>>
  ELSE LET m == CHOOSE x \in S : \A y \in S \ {x} : PathLess(x, y)
       IN  <<m>> \o SortedPaths(S \ {m})

\* lines 363-364, for the regular files tree under the root
collect_files(tree, patterns) ==
  SortedPaths({ rel \in tree : ~_skip(rel, patterns) })

\* The regular files a folder may hold and the patterns the user may give.
TreeFiles ==
  { << <<"a">> >>,
    << <<"s">>, <<"a">> >>,
    << <<"s">>, <<"b", ".", "t", "m", "p">> >>,
    << <<"b", ".", "T", "M", "P">> >>,
    << <<"b", ".", "a">> >>,
    << <<"T", "h", "u", "m", "b", "s", ".", "d", "b">> >> }

Patterns ==
  { <<"a">>, <<"s", "/", "*">>, <<"/", "r", "/", "s", "/", "*">>, <<"?", ".", "a">> }

InitCollect ==
  /\ Constructed
  /\ \E t \in SUBSET TreeFiles, ps \in SUBSET Patterns :
       eval = [fn |-> "collect_files", tree |-> t, patterns |-> ps,
               ran |-> FALSE, ret |-> <<>>]

CollectFiles ==
  /\ eval.fn = "collect_files" /\ ~eval.ran
  /\ eval' = [eval EXCEPT !.ran = TRUE,
                          !.ret = collect_files(eval.tree, eval.patterns)]
  /\ UNCHANGED <<appVars, cfg, files, first, wpc, loopVars, tally, entries, batchVars,
                 remVars, obsVars>>

SpecCollect == InitCollect /\ [][CollectFiles]_vars

\* ------------------------------------------- rate-limit classification
\* _is_rate_limit applied to a status, a body text and a header
StatusCodes == {200, 201, 403, 404, 409, 422, 429, 500, 502, 503, 504}

InitRateLimit ==
  /\ Constructed
  /\ \E c \in StatusCodes, t \in Texts, h \in Hdrs :
       eval = [fn |-> "_is_rate_limit", code |-> c, text |-> t, hdr |-> h,
               ran |-> FALSE, ret |-> FALSE]

\* lines 281-289
IsRateLimit ==
  /\ eval.fn = "_is_rate_limit" /\ ~eval.ran
  /\ eval' = [eval EXCEPT !.ran = TRUE,
                          !.ret = _is_rate_limit(eval.code, eval.text, eval.hdr)]
  /\ UNCHANGED <<appVars, cfg, files, first, wpc, loopVars, tally, entries, batchVars,
                 remVars, obsVars>>

SpecRateLimit == InitRateLimit /\ [][IsRateLimit]_vars

\* ------------------------------------------- completion classification
\* A variant of the failure test that leaves out the empty non-dry run.
is_failure_OnlyFailed(d, f, dry) == f > 0

\* line 812
is_success(d, f) == f = 0 /\ d > 0

\* line 813
is_failure(d, f, dry) == f > 0 \/ (d = 0 /\ ~dry)

\* _done is handed the counts of a run; webhook: a webhook URL is configured
\* (line 811), and only then is the classification computed
InitClassify ==
  /\ Constructed
  /\ \E d \in 0..MaxCount, f \in 0..MaxCount, dry \in BOOLEAN, hook \in BOOLEAN :
       eval = [fn |-> "_done", done |-> d, failed |-> f, dry |-> dry,
               webhook |-> hook, ran |-> FALSE, classified |-> FALSE,
               is_success |-> FALSE, is_failure |-> FALSE]

\* lines 811-813
ClassifyRun ==
  /\ eval.fn = "_done" /\ ~eval.ran
  /\ eval' = IF eval.webhook
               THEN [eval EXCEPT !.ran = TRUE, !.classified = TRUE,
                                 !.is_success = is_success(eval.done, eval.failed),
                                 !.is_failure = is_failure(eval.done, eval.failed, eval.dry)]
               ELSE [eval EXCEPT !.ran = TRUE]
  /\ UNCHANGED <<appVars, cfg, files, first, wpc, loopVars, tally, entries, batchVars,
                 remVars, obsVars>>

SpecClassify == InitClassify /\ [][ClassifyRun]_vars

\* App._start pressed again whenever the start button lets it: _start has
\* no test of its own that a worker is active.  Same settings, same folder.
Restart ==
  /\ btn.start
  /\ wpc # "idle"
  /\ ~first.over
  /\ first' = [over |-> TRUE, ok |-> CommittedSet]
  /\ wpc' = IF cfg.mode = "single" THEN "ws_start" ELSE "pf_start"
  /\ UNCHANGED <<cfg, files, eval>>
  /\ NewRun

NextRestart == Next \/ Restart

SpecRestart == Init /\ [][NextRestart]_vars

\* The same program when the user starts a second run after the first.
NextTwice == Next \/ StartAgain

SpecTwice == Init /\ [][NextTwice]_vars

\* ===================================================================
\* Properties
\* ===================================================================
\* the 0-based indices of the collected files
Files == 0..(total - 1)

\* the rows of the session log (entries) that name the file at index k
RowsOf(k) == { n \in 1..Len(entries) : entries[n].path = RepoPath(k) }
NOut(k)   == Cardinality(RowsOf(k))
HasRow(k, icon) == \E n \in RowsOf(k) : entries[n].icon = icon

\* the worker has come to the file at index k: its queue row has been updated
Reached(k) == k + 1 \in DOMAIN qicon /\ qicon[k + 1] # IconNone

\* the tallies of a run, counted from the rows it recorded
CountIcon(icons) == Cardinality({ n \in 1..Len(entries) : entries[n].icon \in icons })

\* the worker function has returned
Returned == wpc \in {"end", "abort"}

\* C1: in both modes, whatever the remote answers, a file the worker has
\* reached has exactly one outcome row once the run is over (never two, so
\* never both Committed and Failed), and a file the worker has not reached
\* has none; only a cancellation the worker saw may leave a reached file
\* without a row.
C1_OneOutcomePerItem ==
  \A k \in Files :
    /\ NOut(k) <= 1
    /\ (~Reached(k) => NOut(k) = 0)
    /\ (Returned /\ Reached(k) /\ ~cancelSeen => NOut(k) = 1)

\* C2: atomic mode is all-or-nothing on the branch: the ref moves at most
\* once in a run, a run that aborted has left the branch where it was, and
\* when the ref has moved every entry of the committed tree is the blob of a
\* file with a Committed row or the blob of the session log.
C2_AtomicAllOrNothing ==
  cfg.mode = "single" =>
    /\ refMoves <= 1
    /\ (refMoves = 0 => branch = BaseCommit)
    /\ (wpc \in {"abort", "dead"} => branch = BaseCommit /\ refMoves = 0)
    /\ (branch # BaseCommit =>
          /\ branch = NewCommit
          /\ TreeOf(branch) = NewTree
          /\ \A n \in 1..Len(objects.tree.items) :
               LET t == objects.tree.items[n] IN
                 \/ t = TreeItem(LogPath, LogBlob)
                 \/ \E k \in Files : t = TreeItem(RepoPath(k), BlobOf(k))
                                       /\ HasRow(k, IconOk))

\* C2 witness: an atomic run has moved the branch to a commit whose tree
\* holds a file blob and the log blob, while another file failed its blob.
C2_Witness ==
  /\ cfg.mode = "single" /\ wpc = "end"
  /\ branch = NewCommit /\ refMoves = 1
  /\ failed >= 1
  /\ Len(objects.tree.items) >= 2

\* C3: in incremental mode, once the worker has found the cancel flag set,
\* it starts no further remote write: no PUT of a file and no PUT of the
\* session log.
C3_NoWriteAfterCancelSeen ==
  [][ (cancelSeen /\ cfg.mode = "per_file")
        => ~(wpc \in {"pf_put", "pl_put"} /\ wpc' # wpc) ]_vars

\* C4: every started run puts a `done` event on the channel: a worker that
\* has stopped, however it stopped, has put one (it is still on the channel,
\* or _poll has taken it and cleared the running flag).
C4_DoneEventPut ==
  wpc \in {"end", "abort", "dead"} => (log_q # <<>> \/ ~running)

\* C5: the counts of the `done` event are the committed / failed / skipped /
\* deleted tallies the run had accumulated when it ended, also when the run
\* aborted or was cancelled.
C5_DoneCarriesTallies ==
  (Returned /\ log_q # <<>>) =>
    log_q[Len(log_q)] = DoneEvent(CountIcon({IconOk, IconDry}), CountIcon({IconFail}),
                                  CountIcon({IconSkip}), deleted)

\* C6: in the incremental attempt loop, the delay slept on a server error is
\* at most the server-error ceiling, and the delay a directly following
\* server error would sleep (the backoff left behind) is not smaller.
C6_ServerBackoffMonotone ==
  last.kind = "server" => (last.sleep <= ServerCap /\ backoff >= last.sleep)

\* C7 as stated: in both modes a file of 99 MiB or more that the worker has
\* reached is recorded Skipped, once, and no remote call is issued for it.
C7_AtOrAboveCapSkipped ==
  \A k \in Files :
    (files[k + 1].size >= SizeCap /\ Reached(k)) =>
      (HasRow(k, IconSkip) /\ NOut(k) = 1 /\ k \notin called)

\* C7 amended: in both modes a file strictly above 99 MiB that the worker
\* has reached is recorded Skipped, once, and no remote call is issued for
\* it; a file of exactly 99 MiB whose size can be read is never Skipped.
C7_AboveCapSkipped ==
  \A k \in Files :
    /\ (files[k + 1].size > SizeCap /\ Reached(k)) =>
         (HasRow(k, IconSkip) /\ NOut(k) = 1 /\ k \notin called)
    /\ (files[k + 1] = AtCapFile => ~HasRow(k, IconSkip))

\* C7 witness: a file above the cap has been skipped in a run in which a
\* remote call was issued for the file of exactly 99 MiB.
C7_Witness ==
  \E k, j \in Files :
    /\ files[k + 1].size > SizeCap /\ HasRow(k, IconSkip)
    /\ files[j + 1] = AtCapFile /\ j \in called

\* the files of the scenario of C8: readable and not above the cap, or above it
Normal(f) == f.stat /\ f.read /\ f.size <= SizeCap
Big(f)    == f.stat /\ f.size > SizeCap
NormalFiles == { k \in Files : Normal(files[k + 1]) }
BigFiles    == { k \in Files : Big(files[k + 1]) }

C8_Scenario ==
  /\ cfg.mode = "per_file" /\ ~cfg.dry_run
  /\ wpc = "end"
  /\ ~cancel_ev /\ ~faulty
  /\ \A k \in Files : Normal(files[k + 1]) \/ Big(files[k + 1])

\* C8: an incremental, non-dry run that is not cancelled and whose remote
\* calls all succeed, on n readable files under the cap and m oversize files,
\* ends with committed = n, skipped = m, failed = 0 (in its tallies and in
\* its `done` event) and has issued no remote call for an oversize file.
C8_IncrementalCounts ==
  C8_Scenario =>
    /\ done = Cardinality(NormalFiles)
    /\ skipped = Cardinality(BigFiles)
    /\ failed = 0
    /\ (log_q # <<>> => /\ log_q[1].done = Cardinality(NormalFiles)
                        /\ log_q[1].skipped = Cardinality(BigFiles)
                        /\ log_q[1].failed = 0)
    /\ BigFiles \cap called = {}

\* C8 witness: such a run has ended with a committed and a skipped file.
C8_Witness ==
  /\ C8_Scenario
  /\ NormalFiles # {} /\ BigFiles # {}
  /\ log_q # <<>>

\* a dry run that ran to its end without finding the cancel flag set, its
\* `done` event still on the channel
DryRunOver == cfg.dry_run /\ wpc = "end" /\ ~cancelSeen /\ log_q # <<>>

\* C9 as stated: a dry run makes no remote call, and its committed count is
\* the number of files that can be read and are under the size cap.
C9_DryRunCountsReadable ==
  /\ (cfg.dry_run => ~anyCall /\ called = {})
  /\ (DryRunOver =>
        log_q[1].done =
          Cardinality({ k \in Files : /\ files[k + 1].stat /\ files[k + 1].read
                                      /\ files[k + 1].size < SizeCap }))

\* C9 amended: a dry run makes no remote call, and its committed count is
\* the number of files whose size can be read and is not above the cap, less,
\* in atomic mode only, those whose content cannot be read.
C9_DryRunCounts ==
  /\ (cfg.dry_run => ~anyCall /\ called = {})
  /\ (DryRunOver =>
        log_q[1].done =
          Cardinality({ k \in Files : /\ files[k + 1].stat
                                      /\ files[k + 1].size <= SizeCap
                                      /\ (cfg.mode = "single" => files[k + 1].read) }))

\* C9 witness: an incremental dry run over the file of exactly 99 MiB and a
\* file whose content cannot be read has ended, counting both.
C9_Witness ==
  /\ DryRunOver /\ cfg.mode = "per_file" /\ cfg.write_files_log
  /\ log_q[1].done = 2
  /\ \E k \in Files : files[k + 1].stat /\ ~files[k + 1].read

\* C10: in incremental mode, when the cancel flag is set between two files
\* (cancelPos files are behind the worker), committed + failed + skipped
\* stays at most cancelPos, and no later file gets an outcome row, a
\* terminal icon or a remote call.
C10_CancelBetweenItems ==
  (cfg.mode = "per_file" /\ cancelPos >= 0) =>
    /\ done + failed + skipped <= cancelPos
    /\ Len(entries) <= cancelPos
    /\ \A j \in Files : j >= cancelPos =>
         /\ NOut(j) = 0
         /\ qicon[j + 1] \notin Terminal
         /\ j \notin called

\* C10 witness: a run of two files, cancelled after the first, has ended
\* with that one outcome.
C10_Witness ==
  /\ cfg.mode = "per_file" /\ wpc = "end"
  /\ total = 2 /\ cancelPos = 1
  /\ done + failed + skipped = 1

\* the second of two incremental, non-dry runs without disposal, with no
\* fault of the remote so far
C11_Scenario ==
  /\ first.over
  /\ cfg.mode = "per_file" /\ ~cfg.dry_run /\ cfg.delete_mode = "none"
  /\ ~faulty

\* C11: when an incremental run is repeated on the same files against a
\* fault-free remote that only the runs change, every write of the second
\* run carries the hash stored at its path, no write is answered Conflict,
\* and the second run, if not cancelled, commits exactly the files the first
\* run committed.
C11_SecondRunSameCommitted ==
  C11_Scenario =>
    /\ (wpc = "pf_put" => sha = rhash[RepoPath(i)])
    /\ last.kind # "conflict"
    /\ (wpc = "end" /\ ~cancelSeen => CommittedSet = first.ok)

\* C11 witness: the second run has ended having committed again the two
\* files the first run committed.
C11_Witness ==
  /\ C11_Scenario /\ wpc = "end" /\ ~cancelSeen
  /\ Cardinality(first.ok) = 2
  /\ called = first.ok

\* how often the disposal helper was invoked for the file at index k
DisposedCount(k) == Cardinality({ n \in 1..Len(disposed) : disposed[n] = k })

\* C12: with a disposal mode on, in both modes, disposal is invoked at most
\* once per file and only for a file with a Committed row (never for a
\* Skipped, Failed or DryRun one), exactly once for every Committed file of
\* a run that reached its end (in incremental mode as soon as the file is
\* committed), and the deleted count never exceeds the committed count.
C12_DisposalOncePerCommitted ==
  cfg.delete_mode # "none" =>
    /\ \A k \in Files :
         /\ DisposedCount(k) <= 1
         /\ (DisposedCount(k) = 1 => RowsOf(k) # {} /\ \A n \in RowsOf(k) : entries[n].icon = IconOk)
         /\ (HasRow(k, IconOk) /\ (wpc = "end" \/ cfg.mode = "per_file")
               => DisposedCount(k) = 1)
    /\ deleted <= CountIcon({IconOk})
    /\ deleted <= Len(disposed)
    /\ \A n \in 1..Len(log_q) : log_q[n].deleted <= log_q[n].done

\* C12 witness: an atomic run with disposal on has ended with one file
\* committed and disposed and another failed and kept.
C12_Witness ==
  /\ cfg.delete_mode # "none" /\ cfg.mode = "single" /\ wpc = "end"
  /\ Len(disposed) = 1 /\ deleted = 1
  /\ failed = 1

\* C13: in atomic mode no local file is disposed before the ref move of the
\* run has succeeded: while the ref has not moved, and in every run that was
\* aborted, cancelled or ended by an exception, disposal was invoked zero
\* times and nothing counts as deleted.
C13_NoDisposalBeforeRefMove ==
  cfg.mode = "single" =>
    /\ (refMoves = 0 => disposed = <<>> /\ deleted = 0)
    /\ (wpc \in {"abort", "dead"} => disposed = <<>> /\ deleted = 0)
    /\ (disposed # <<>> => branch = NewCommit /\ wpc = "end")

\* C13 witness: an atomic run with disposal on was refused the ref move
\* after it had made a blob, a tree and a commit, and disposed of nothing.
C13_Witness ==
  /\ cfg.mode = "single" /\ cfg.delete_mode # "none"
  /\ wpc = "abort" /\ nc = NewCommit /\ done >= 1
  /\ branch = BaseCommit /\ disposed = <<>>

\* a sequence of rows names files in strictly ascending order from position
\* a to position b
RowsAscend(a, b) ==
  \A m, n \in a..b : m < n => entries[m].path < entries[n].path

\* a remote call has been issued for a file only when every file before it
\* had its outcome row, and the disposals were made in ascending order
CallsAndDisposalsInOrder ==
  /\ \A j \in called : \A k \in Files : k < j => NOut(k) = 1
  /\ \A m, n \in 1..Len(disposed) : m < n => disposed[m] < disposed[n]

LeftAfterAllAttempts ==
  /\ wpc \in {"pf_pause", "pf_log"} /\ i >= 1
  /\ fetches = MaxAttempts

\* C15: in incremental mode, whatever mix of rate-limit, conflict,
\* server-error and transport-error outcomes a file meets, at most 7 hash
\* fetches and at most 7 writes are issued for it, and a file left after all
\* 7 attempts in a run that did not see a cancellation has one row, which is
\* Failed unless the last attempt committed it.
C15_AttemptsBounded ==
  /\ fetches <= MaxAttempts
  /\ writes <= fetches
  /\ (LeftAfterAllAttempts /\ ~cancelSeen =>
        /\ NOut(i - 1) = 1
        /\ (last.kind # "ok" => HasRow(i - 1, IconFail)))

\* C15 witness: a file was given up after 7 hash fetches and 7 writes, none
\* of which ended it, and got its Failed row.
C15_Witness ==
  /\ LeftAfterAllAttempts /\ ~cancelSeen
  /\ writes = MaxAttempts
  /\ last = NoResult
  /\ HasRow(i - 1, IconFail)

\* the positions of the worker at which its next step is a remote call
CallPcs ==
  {"pf_sha", "pf_put", "pl_get", "pl_put", "ws_branch", "ws_tsha", "ws_blob",
   "ws_lget", "ws_lblob", "ws_mktree", "ws_commit", "ws_ref"}

\* the worker issues a remote call in this step
RemoteCall == wpc \in CallPcs /\ (wpc' # wpc \/ att' # att)

\* C16: while the pause flag is set and the cancel flag is not, the worker
\* issues no remote call: not the hash fetch after the per-call delay, not
\* the write after the hash fetch, and no call of the atomic tree, commit and
\* ref sequence.
C16_NoCallWhilePaused ==
  [][pause_ev /\ ~cancel_ev => ~RemoteCall]_vars

\* collect_files has returned
Collected == eval.fn = "collect_files" /\ eval.ran

\* how often a file occurs in the returned list
TimesCollected(rel) == Cardinality({ n \in DOMAIN eval.ret : eval.ret[n] = rel })

\* the exclusions as stated: artifact name, noise extension, or a pattern
\* matching the bare name or the path relative to the root
StatedExcluded(rel, patterns) ==
  \/ PathName(rel) \in SKIP_NAMES
  \/ Lower(PathSuffix(rel)) \in SKIP_EXTENSIONS
  \/ \E pat \in patterns : fnmatch(PathName(rel), pat) \/ fnmatch(RelStr(rel), pat)

\* C17: for every pattern set and file tree, the collected list holds no
\* file whose bare name or path relative to the root matches a pattern, no
\* file with an artifact name or a noise extension, and every other regular
\* file under the root exactly once, in sorted path order.
C17_CollectedAsStated ==
  Collected =>
    /\ \A rel \in eval.tree :
         TimesCollected(rel) = IF StatedExcluded(rel, eval.patterns) THEN 0 ELSE 1
    /\ \A n \in DOMAIN eval.ret : eval.ret[n] \in eval.tree
    /\ \A m, n \in DOMAIN eval.ret : m < n => PathLess(eval.ret[m], eval.ret[n])

\* the positions of the worker at which its next step fetches the session
\* log, or builds or writes the new one
AuxPcs == {"pl_get", "pl_put", "ws_lget", "ws_lblob"}

\* C18: a failure of an auxiliary operation (fetching, building or writing
\* the session log), by failure status or by transport exception, never
\* aborts the run and never changes the committed, failed and skipped
\* counts, in incremental and in atomic mode.
C18_AuxiliaryFailureHarmless ==
  [][(wpc \in AuxPcs) =>
       (wpc' \notin {"dead", "abort"} /\ UNCHANGED <<done, failed, skipped>>)]_vars

\* C19: the session log is append-only across runs: whenever a run writes
\* the log and the log object exists on the branch with content L, the new
\* content is L followed by the new session block, and the document header
\* is prepended only when the object does not exist, for every outcome of
\* the log read, in incremental and in atomic mode.
C19_LogAppendOnly ==
  [][(rlog' # rlog) =>
       rlog' = IF rlog = None THEN _log_header \o _session_block
                              ELSE rlog \o _session_block]_vars

\* _done has computed the classification of the counts it was handed
Classified == eval.fn = "_done" /\ eval.classified

\* C20: the classification computed at run end follows the rule (success
\* iff failed = 0 and committed > 0; failure iff failed > 0, or committed = 0
\* in a run that is not a dry run); success and failure are never both
\* true, and every result that is not a dry run is exactly one of the two.
C20_ClassificationRule ==
  Classified =>
    /\ eval.is_success <=> (eval.failed = 0 /\ eval.done > 0)
    /\ eval.is_failure <=> (eval.failed > 0 \/ (eval.done = 0 /\ ~eval.dry))
    /\ ~(eval.is_success /\ eval.is_failure)
    /\ (~eval.dry => (eval.is_success # eval.is_failure))

\* C20 witness: a run that is not a dry run and committed and failed
\* nothing was classified a failure and not a success.
C20_Witness ==
  /\ Classified /\ ~eval.dry
  /\ eval.done = 0 /\ eval.failed = 0
  /\ eval.is_failure /\ ~eval.is_success

\* the worker thread has returned (or none was started)
WorkerOver == wpc \in {"idle", "end", "abort"}

\* C21: at most one worker is active per App: whenever the start button
\* lets a run be started, the worker of the previous run has returned and
\* its done event has been taken off the channel, under every interleaving
\* of start, pause, cancel and polling.
C21_OneWorkerAtATime ==
  /\ (btn.start => WorkerOver /\ log_q = <<>>)
  /\ (running => ~btn.start)

\* C21 witness: a second run was started after the first one's done event
\* was polled, and its worker is issuing calls with the start button off.
C21_Witness ==
  /\ first.over /\ running /\ ~btn.start
  /\ wpc \in CallPcs

\* C22: on a rate-limited write with current backoff b the incremental loop
\* sleeps 2*b, sets the backoff to min(2*b, 300) and retries the same file
\* within the same budget of attempts; no sleep caused by rate limiting
\* exceeds 300.
C22_RateLimitSleepCapped ==
  last.kind = "rl" =>
    /\ last.sleep <= RateCap
    /\ backoff = Min(last.sleep, RateCap)
    /\ NOut(i) = 0 /\ attempt <= MaxAttempts

\* the write of this step was answered with a stale-hash conflict
ConflictStep == wpc = "pf_put" /\ last'.kind = "conflict"

\* C23: on a conflict the incremental loop leaves the backoff unchanged and
\* waits only the per-call delay, and a write for the file is issued only
\* with the hash of a fetch made after the conflict.
C23_ConflictRefetches ==
  [][/\ (ConflictStep =>
           backoff' = backoff /\ last'.sleep = cfg.delay /\ wpc' \in {"pf_att", "pf_post"})
     /\ (last.kind = "conflict" => wpc' # "pf_put")
     /\ (wpc' = "pf_put" /\ wpc # "pf_put" =>
           wpc = "pf_sha" /\ last'.kind = "fetched" /\ sha' = last'.sha)]_vars

\* C23 witness: a conflict met after the backoff had grown left it as it
\* was, and the worker is about to start the next attempt.
C23_Witness ==
  /\ last.kind = "conflict" /\ last.sleep = cfg.delay
  /\ backoff > cfg.delay
  /\ wpc = "pf_att"

\* C24: every write of a file in incremental mode is preceded, within the
\* same attempt, by a hash fetch for the same path; the hash sent is the
\* value that fetch returned, none when the path does not exist, and never
\* the hash of an earlier attempt.
C24_WriteUsesFreshHash ==
  (wpc = "pf_put") =>
    /\ last.kind = "fetched" /\ last.sha = sha
    /\ i \in called
    /\ sha \in {NoSha, rhash[RepoPath(i)]}
    /\ (rhash[RepoPath(i)] = NoSha => sha = NoSha)

\* C24 witness: on a later attempt, after a conflict on a path that exists,
\* the worker holds the stored hash and is about to write.
C24_Witness ==
  /\ wpc = "pf_put" /\ attempt >= 2
  /\ rhash[RepoPath(i)] # NoSha
  /\ sha = rhash[RepoPath(i)] /\ last.sha = sha

\* the write of this step was answered (it did not raise)
WriteAnswered == wpc = "pf_put" /\ wpc' # wpc /\ last'.kind # "exc"

\* C25: a write response that is no success, not rate-limited and whose
\* status is neither the conflict status nor a 5xx status is terminal
\* whatever the text of its body: the file is recorded Failed on that
\* attempt and no further call is made for it.
C25_OtherStatusTerminal ==
  [][WriteAnswered =>
       /\ last'.kind = "client"
       /\ failed' = failed + 1
       /\ entries' = Append(entries, Entry(IconFail, RepoPath(i)))
       /\ i' = i + 1]_vars

\* the fetch or the write of this step raised a transport error
RaisedStep == wpc \in {"pf_sha", "pf_put"} /\ last'.kind = "exc"

\* C26: a transport error raised by the hash fetch or by the write makes
\* the same transition as a server error: the loop sleeps the current
\* backoff b, sets the backoff to min(2*b, 120), uses up one attempt and
\* retries; it records no Failed row for the file while attempts are left.
C26_TransportErrorRetries ==
  [][RaisedStep =>
       /\ last'.sleep = backoff
       /\ backoff' = Min(2 * backoff, ServerCap)
       /\ UNCHANGED <<i, failed, entries, outcome>>
       /\ IF attempt < MaxAttempts
            THEN attempt' = attempt + 1 /\ wpc' = "pf_att"
            ELSE wpc' = "pf_post"]_vars

\* C26 witness: transport errors alone have taken the backoff to its cap
\* of 120 and used up the attempts, and no row was written for the file yet.
C26_Witness ==
  /\ last.kind = "exc" /\ last.sleep = 64
  /\ backoff = ServerCap
  /\ wpc = "pf_post" /\ NOut(i) = 0

\* the response carries a remaining-quota header of value zero, in
\* whatever letter case its name is written
ZeroRemaining(h) == h \in {"X-RateLimit-Remaining: 0", "x-ratelimit-remaining: 0"}

\* C27: the rate-limit classifier returns true exactly when the status is
\* 429, or the status is 403 and the response carries a remaining-quota
\* header of value zero (whatever the letter case of its name) or a
\* rate-limit message in its body; it returns false for every other status.
C27_RateLimitClassifier ==
  (eval.fn = "_is_rate_limit" /\ eval.ran) =>
    (eval.ret <=>
       \/ eval.code = 429
       \/ (eval.code = 403 /\ (ZeroRemaining(eval.hdr) \/ eval.text = "rate limit")))

\* the positions of the worker in a pause wait loop
PausePcs == {"pf_pause", "pf_apause", "ws_rpause", "ws_bpause"}

\* C28: after every exit from a pause wait loop, at a file boundary and at
\* the head of an attempt, in both modes, the cancel flag is checked before
\* any further remote call: a worker whose wait is ended by the cancel
\* flag (pause still set) does not go on to a hash fetch or a write.
C28_CancelCheckedAfterPause ==
  [][(wpc \in PausePcs /\ pause_ev /\ cancel_ev /\ wpc' # wpc) =>
       wpc' \notin CallPcs]_vars

\* C29: in the incremental per-file loop the cancel flag is checked after
\* every sleep: the hash fetch and the write, each of which follows the
\* per-call delay, are issued only if the flag is not set.
C29_CancelCheckedAfterSleep ==
  [][(wpc \in {"pf_sha", "pf_put"} /\ wpc' # wpc) => ~cancel_ev]_vars

\* the worker is at the cancel check that opens the next file or blob
HeadPcs == {"pf_head", "ws_rhead", "ws_bhead"}

C31_FailureStaysInItem ==
  cfg.mode = "per_file" =>
    /\ (faulty => wpc \notin {"abort", "dead"})
    /\ (wpc = "end" /\ ~cancel_ev => \A k \in Files : Reached(k) /\ NOut(k) = 1)

\* a local problem with a collected file: its size cannot be read, it is
\* above the cap, or its content cannot be read
LocalProblem(f) == ~f.stat \/ Oversize(f.size) \/ ~f.read

\* C32: a local problem with a source file never ends the run, in either
\* mode: a worker that has issued no remote call has not died, and in a run
\* that is not a dry run a file with a local problem that the worker has
\* reached has one row, Skipped or Failed, and no remote call.
C32_LocalProblemHarmless ==
  /\ (~anyCall => wpc # "dead")
  /\ ~cfg.dry_run =>
       \A k \in Files :
         (Reached(k) /\ LocalProblem(files[k + 1])) =>
           /\ NOut(k) = 1
           /\ HasRow(k, IconSkip) \/ HasRow(k, IconFail)
           /\ k \notin called

\* C33: in atomic mode no remote call is issued before the read phase has
\* reached every file of the list; a worker that finds the cancel flag set
\* during the read phase puts its done event with no remote call made, and
\* issues none afterwards.
C33_NoCallBeforeReadPhaseOver ==
  /\ []((cfg.mode = "single" /\ anyCall) => \A k \in Files : Reached(k))
  /\ [][(wpc = "ws_rhead" /\ cancel_ev /\ wpc' # wpc) =>
          (wpc' = "abort" /\ ~anyCall' /\ Len(log_q') = Len(log_q) + 1)]_vars
  /\ [][(wpc = "abort") => (wpc' = "abort" /\ anyCall' = anyCall)]_vars

\* C33 witness: an atomic run of two files was cancelled after the first had
\* been read, and ended with no remote call.
C33_Witness ==
  /\ cfg.mode = "single" /\ ~cfg.dry_run /\ wpc = "abort" /\ cancelSeen
  /\ total = 2 /\ i = 1 /\ file_data = <<0>>
  /\ ~anyCall /\ called = {}

\* the worker is about to issue createTree, createCommit or the ref move
CommitPcs == {"ws_mktree", "ws_commit", "ws_ref"}

\* the step enters position pc
Enters(pc) == wpc' = pc /\ wpc # pc

\* C34: the atomic commit protocol is ordered and single-shot.  createTree
\* is issued after every blob call of the run, with nothing created yet;
\* createCommit only after a createTree that succeeded, on the tree built
\* from the base tree and the entries; the ref move only after a
\* createCommit that succeeded, whose only parent is the head resolved at
\* the start of the commit phase, and towards that commit; each of the three
\* positions is entered from its predecessor only and left for good.
C34_CommitProtocolOrdered ==
  /\ [](cfg.mode = "single" =>
         /\ (wpc \in CommitPcs => i = Len(file_data) /\ c_sha = BaseCommit
                                     /\ t_sha = BaseTree /\ refMoves = 0)
         /\ (wpc = "ws_mktree" => nt = NoObj /\ nc = NoObj)
         /\ (wpc = "ws_commit" => /\ nt = NewTree /\ nc = NoObj
                                   /\ objects.tree = [base |-> t_sha, items |-> tree_items])
         /\ (wpc = "ws_ref" => /\ nc = NewCommit
                                /\ objects.commit = [tree |-> NewTree, parent |-> c_sha])
         /\ (refMoves = 1 => branch = nc /\ nc = NewCommit))
  /\ [][/\ (Enters("ws_mktree") => wpc = "ws_check")
         /\ (Enters("ws_commit") => wpc = "ws_mktree")
         /\ (Enters("ws_ref")    => wpc = "ws_commit")
         /\ (Enters("ws_blob") \/ Enters("ws_lblob") => nt = NoObj /\ wpc \notin CommitPcs)
         /\ (wpc \in CommitPcs /\ wpc' # wpc =>
               wpc' \in {"ws_commit", "ws_ref", "ws_finish", "abort", "dead"})]_vars

\* C34 witness: an atomic run has moved the branch to its new commit, whose
\* parent is the base commit and whose tree, on the base tree, holds the
\* blobs of two files.
C34_Witness ==
  /\ cfg.mode = "single" /\ wpc = "ws_finish"
  /\ refMoves = 1 /\ branch = NewCommit
  /\ objects.commit = [tree |-> NewTree, parent |-> BaseCommit]
  /\ objects.tree.base = BaseTree
  /\ objects.tree.items = <<TreeItem(RepoPath(0), BlobOf(0)), TreeItem(RepoPath(1), BlobOf(1))>>

\* the entries of a tree item list that sit at the repo path of file k, the
\* entry of the session log apart
ItemsAt(items, k) ==
  { n \in DOMAIN items : items[n].path = RepoPath(k) /\ items[n].sha # LogBlob }

\* the blob loop gives up on the file in hand: its last call has failed
BlobGivesUp == wpc = "ws_blob" /\ wpc' # wpc /\ done' = done /\ wpc' # "dead"

\* C35: in atomic mode at most 4 createBlob calls are issued for a file; a
\* file whose calls all fail gets a Failed row and no tree entry, and the
\* batch goes on with the next file (or with the log and the commit); the
\* tree that is committed holds the blob of every file with a Committed row
\* (the session-log path apart) and no entry for a file whose blob failed.
C35_BlobFailureNotFatal ==
  /\ [](cfg.mode = "single" =>
         /\ (wpc = "ws_blob" => att \in 1..BlobAttempts)
         /\ \A k \in Files :
              (HasRow(k, IconFail) =>
                 ItemsAt(tree_items, k) = {} /\ ItemsAt(objects.tree.items, k) = {})
         /\ (refMoves = 1 =>
               \A k \in Files : (HasRow(k, IconOk) /\ RepoPath(k) # LogPath) =>
                 \E n \in ItemsAt(objects.tree.items, k) :
                   objects.tree.items[n].sha = BlobOf(k)))
  /\ [][BlobGivesUp =>
          /\ att = BlobAttempts
          /\ entries' = Append(entries, Entry(IconFail, RepoPath(file_data[i + 1])))
          /\ failed' = failed + 1 /\ tree_items' = tree_items
          /\ i' = i + 1 /\ wpc' = AfterBlob(i)]_vars

\* C35 witness: an atomic run has committed the blob of its second file
\* after all four blob calls for its first file had failed.
C35_Witness ==
  /\ cfg.mode = "single" /\ wpc = "end" /\ refMoves = 1
  /\ total = 2 /\ called = {0, 1}
  /\ HasRow(0, IconFail) /\ HasRow(1, IconOk)
  /\ ~cfg.write_files_log
  /\ objects.tree.items = <<TreeItem(RepoPath(1), BlobOf(1))>>

\* no two entries of a tree item list have the same path
DistinctPaths(items) ==
  \A m, n \in DOMAIN items : m # n => items[m].path # items[n].path

\* C36: in every state of an atomic run the accumulated tree entries have
\* pairwise distinct paths, and so has the list handed to createTree; the
\* session-log path occurs in it at most once, also when a collected file
\* has the repo path of the session log.
C36_TreePathsDistinct ==
  cfg.mode = "single" =>
    /\ DistinctPaths(tree_items)
    /\ DistinctPaths(objects.tree.items)
    /\ Cardinality({ n \in DOMAIN objects.tree.items :
                       objects.tree.items[n].path = LogPath }) <= 1

\* C36 witness: the blob of a collected files.log was made and entered, the
\* blob of the session log was made after it, and the tree was created from
\* a list that holds the log path once, next to the entry of another file.
C36_Witness ==
  /\ cfg.mode = "single" /\ wpc = "ws_commit"
  /\ total = 2 /\ RepoPath(0) = LogPath /\ HasRow(0, IconOk) /\ HasRow(1, IconOk)
  /\ objects.tree.items = <<TreeItem(RepoPath(1), BlobOf(1)), TreeItem(LogPath, LogBlob)>>

\* C38: in atomic mode, once the ref has moved, every file with a Committed
\* row has its own blob at its repo path in the tree of the new commit,
\* also when that path is the path of the session log.
C38_CommittedContentInTree ==
  (cfg.mode = "single" /\ refMoves = 1) =>
    \A k \in Files :
      HasRow(k, IconOk) =>
        \E n \in DOMAIN objects.tree.items :
          objects.tree.items[n] = TreeItem(RepoPath(k), BlobOf(k))

\* the write of the session log was issued and did not change the log
LogWriteFails == wpc = "pl_put" /\ wpc' # wpc /\ rlog' = rlog

\* C37: in incremental mode the write of the session log has its own
\* retry: a write that fails, by conflict, by another failure status or by
\* a transport error, is followed by a new read of the log and a new write.
C37_LogWriteRetried ==
  [][LogWriteFails => wpc' = "pl_get"]_vars

\* the step puts an event on the channel
PutsDone == Len(log_q') > Len(log_q)

\* C39: a worker puts at most one `done` event per run, and it is the last
\* thing the worker does: the event is put by the step on which the worker
\* function returns, one event at a time, and a worker that has returned
\* updates no queue row, no outcome row and no count, and puts nothing more.
C39_DoneIsLast ==
  /\ [](Len(log_q) <= 1)
  /\ [][PutsDone =>
          /\ Len(log_q') = Len(log_q) + 1
          /\ ~Returned /\ Returned']_vars
  /\ [][Returned =>
          /\ wpc' = wpc /\ ~PutsDone
          /\ UNCHANGED <<qicon, entries, tally>>]_vars

\* C39 witness: an atomic run that had made a blob found the cancel flag
\* set in the blob loop, put its one done event and returned.
C39_Witness ==
  /\ cfg.mode = "single" /\ wpc = "abort" /\ cancelSeen
  /\ done = 1 /\ log_q = <<DoneEvent(0, 0, 0, 0)>>

\* C40: every queue_update event carries the index its file has in the list
\* announced by queue_init: a row of the queue panel that shows a final
\* icon belongs to a file that has an outcome row with that icon, in both
\* modes, also when earlier files of the list were skipped or not read.
C40_StatusCarriesListIndex ==
  \A k \in Files :
    (k + 1 \in DOMAIN qicon /\ qicon[k + 1] \in Terminal) => HasRow(k, qicon[k + 1])

====
